---- MODULE Spec2Model ----
(***************************************************************************)
(* Matrix-free Laplace operator on hexahedral meshes (matrix-free.hpp) and *)
(* the ROCm SMI telemetry helpers.                                         *)
(*                                                                         *)
(* Arithmetic.  The kernels compute in double precision.  TLC has integers *)
(* only, so a scalar is an exact rational <<n, d>> (d > 0, lowest terms)   *)
(* and every + - * / fabs of the source is the exact rational operation.   *)
(* The compiled-in tables hold irrational Gauss data; their entries are    *)
(* rounded to binary fixed point (1/8 for the 3-point rule, 1/16 for the   *)
(* 4-point rule, weights as the products of the rounded 1-D weights), in   *)
(* the layout of the source arrays.                                        *)
(*                                                                         *)
(* Specifications.  Spec: construction, operator() and the kernels on the  *)
(* null stream, thread by thread.  SpecLaunch: the grid of one launch,     *)
(* block by block, for many cell counts.  SpecSmi: the telemetry           *)
(* operations in any order.  SpecFair: the degree-1 operator and its       *)
(* kernel under fair scheduling of the device.  SpecLoops: the loop nests  *)
(* of the kernel body, subscript by subscript.  SpecLinear: the kernel     *)
(* body on one cell for two fields and a combination of them.              *)
(***************************************************************************)
EXTENDS Integers, Sequences, FiniteSets, TLC

----------------------------------------------------------------------------
(* Exact rational scalars *)

RECURSIVE GCD(_, _)
GCD(a, b) == IF b = 0 THEN a ELSE GCD(b, a % b)

IAbs(n) == IF n < 0 THEN -n ELSE n

RNorm(n, d) == LET g == GCD(IAbs(n), d) IN <<n \div g, d \div g>>

RZero == <<0, 1>>

ROne == <<1, 1>>

RInt(n) == <<n, 1>>

RNeg(a) == <<-a[1], a[2]>>

RAdd(a, b) ==
  IF a[1] = 0 THEN b
  ELSE IF b[1] = 0 THEN a
  ELSE IF a[2] = b[2] THEN RNorm(a[1] + b[1], a[2])
  ELSE LET g == GCD(a[2], b[2])
       IN RNorm(a[1] * (b[2] \div g) + b[1] * (a[2] \div g), (a[2] \div g) * b[2])

RMul(a, b) ==
  IF a[1] = 0 \/ b[1] = 0 THEN RZero
  ELSE LET g1 == GCD(IAbs(a[1]), b[2])
           g2 == GCD(IAbs(b[1]), a[2])
       IN <<(a[1] \div g1) * (b[1] \div g2), (a[2] \div g2) * (b[2] \div g1)>>

RInv(a) == IF a[1] < 0 THEN <<-a[2], -a[1]>> ELSE <<a[2], a[1]>>

RDiv(a, b) == RMul(a, RInv(b))

fabs(a) == <<IAbs(a[1]), a[2]>>

\* left-to-right accumulation acc += s[1]; acc += s[2]; ... starting from acc
RECURSIVE Accumulate(_, _, _)
Accumulate(acc, s, k) ==
  IF k > Len(s) THEN acc ELSE Accumulate(RAdd(acc, s[k]), s, k + 1)

\* TLC evaluates a function expression lazily; Force makes it a tuple once
Force(s) == SubSeq(s, 1, Len(s))

----------------------------------------------------------------------------
(* Quadrature rules and basis tables, tabulate_tensor_Q1 *)

weights_461 ==
    <<<<1, 64>>, <<1, 32>>, <<1, 64>>, <<1, 32>>, <<1, 16>>, <<1, 32>>, <<1, 64>>, <<1, 32>>, <<1, 64>>,
       <<1, 32>>, <<1, 16>>, <<1, 32>>, <<1, 16>>, <<1, 8>>, <<1, 16>>, <<1, 32>>, <<1, 16>>, <<1, 32>>,
       <<1, 64>>, <<1, 32>>, <<1, 64>>, <<1, 32>>, <<1, 16>>, <<1, 32>>, <<1, 64>>, <<1, 32>>, <<1, 64>>>>

FE_TF0_Q1 == << <<RInt(-1), ROne>>, <<RInt(-1), ROne>>, <<RInt(-1), ROne>> >>

FE_TF1_Q1 ==
    << << <<7, 8>>, <<1, 8>> >>,
       << <<1, 2>>, <<1, 2>> >>,
       << <<1, 8>>, <<7, 8>> >> >>

(* Quadrature rules and basis tables, tabulate_tensor_Q2 *)

weights_be1 ==
    <<<<27, 4096>>, <<45, 4096>>, <<45, 4096>>, <<27, 4096>>, <<45, 4096>>, <<75, 4096>>, <<75, 4096>>, <<45, 4096>>,
       <<45, 4096>>, <<75, 4096>>, <<75, 4096>>, <<45, 4096>>, <<27, 4096>>, <<45, 4096>>, <<45, 4096>>, <<27, 4096>>,
       <<45, 4096>>, <<75, 4096>>, <<75, 4096>>, <<45, 4096>>, <<75, 4096>>, <<125, 4096>>, <<125, 4096>>, <<75, 4096>>,
       <<75, 4096>>, <<125, 4096>>, <<125, 4096>>, <<75, 4096>>, <<45, 4096>>, <<75, 4096>>, <<75, 4096>>, <<45, 4096>>,
       <<45, 4096>>, <<75, 4096>>, <<75, 4096>>, <<45, 4096>>, <<75, 4096>>, <<125, 4096>>, <<125, 4096>>, <<75, 4096>>,
       <<75, 4096>>, <<125, 4096>>, <<125, 4096>>, <<75, 4096>>, <<45, 4096>>, <<75, 4096>>, <<75, 4096>>, <<45, 4096>>,
       <<27, 4096>>, <<45, 4096>>, <<45, 4096>>, <<27, 4096>>, <<45, 4096>>, <<75, 4096>>, <<75, 4096>>, <<45, 4096>>,
       <<45, 4096>>, <<75, 4096>>, <<75, 4096>>, <<45, 4096>>, <<27, 4096>>, <<45, 4096>>, <<45, 4096>>, <<27, 4096>>>>

FE_TF0_Q2 ==
    << << <<-11, 4>>, <<-3, 4>>, <<7, 2>> >>,
       << <<-27, 16>>, <<5, 16>>, <<11, 8>> >>,
       << <<-5, 16>>, <<27, 16>>, <<-11, 8>> >>,
       << <<3, 4>>, <<11, 4>>, <<-7, 2>> >> >>

FE_TF1_Q2 ==
    << << <<13, 16>>, <<-1, 16>>, <<1, 4>> >>,
       << <<1, 4>>, <<-1, 8>>, <<7, 8>> >>,
       << <<-1, 8>>, <<1, 4>>, <<7, 8>> >>,
       << <<-1, 16>>, <<13, 16>>, <<1, 4>> >> >>

FE_TF2_Q2 ==
    << << <<15, 16>>, <<1, 16>> >>,
       << <<11, 16>>, <<5, 16>> >>,
       << <<5, 16>>, <<11, 16>> >>,
       << <<1, 16>>, <<15, 16>> >> >>

FE_TF3_Q2 ==
    << <<RInt(-1), ROne>>, <<RInt(-1), ROne>>, <<RInt(-1), ROne>>, <<RInt(-1), ROne>> >>

----------------------------------------------------------------------------
(* The kernel body.  The two variants share one structure and differ in    *)
(* their tables, loop extents and index strides; K collects what differs:  *)
(*   space_dim: dofs per cell; nq: quadrature points per direction; nb:    *)
(*   field basis functions per direction; ds0, ds1 / qs0, qs1: strides     *)
(*   flattening a dof / quadrature index triple; PF, PG: the products of   *)
(*   table entries used for the field / the 8-node geometry; zero_A: the   *)
(*   local tensor is zero-filled before the quadrature loop.               *)

\* loop nest  for (i0 < n) for (i1 < n) for (i2 < n)  as the sequence of its triples
Triples(n) ==
  Force([k \in 1..(n * n * n) |->
           <<(k - 1) \div (n * n), ((k - 1) \div n) % n, (k - 1) % n>>])

\* D[0][0][iq0][ic0] * V[0][0][iq1][ic1] * V[0][0][iq2][ic2] with the derivative
\* table D in direction dir and the value table V in the other two
BasisProduct(D, V, dir, iq, ic) ==
  RMul(RMul((IF dir = 0 THEN D ELSE V)[iq[1] + 1][ic[1] + 1],
            (IF dir = 1 THEN D ELSE V)[iq[2] + 1][ic[2] + 1]),
       (IF dir = 2 THEN D ELSE V)[iq[3] + 1][ic[3] + 1])

\* BasisProduct for every direction, quadrature triple and basis triple, each in
\* loop order: P[dir + 1][q][k] with iq = Triples(nq)[q], ic = Triples(nb)[k]
ProductTable(D, V, nq, nb) ==
  LET iqs == Triples(nq)
      ics == Triples(nb)
  IN Force([d \in 1..3 |->
       Force([q \in 1..Len(iqs) |->
         Force([k \in 1..Len(ics) |-> BasisProduct(D, V, d - 1, iqs[q], ics[k])])])])

Products_Q1 == ProductTable(FE_TF0_Q1, FE_TF1_Q1, 3, 2)

Products_Q2 == ProductTable(FE_TF0_Q2, FE_TF1_Q2, 4, 3)

GeometryProducts_Q2 == ProductTable(FE_TF3_Q2, FE_TF2_Q2, 4, 2)

Kernel_Q1 ==
  [name |-> "Q1", space_dim |-> 8, nq |-> 3, nb |-> 2,
   ds0 |-> 4, ds1 |-> 2, qs0 |-> 9, qs1 |-> 3,
   PF |-> Products_Q1, PG |-> Products_Q1,
   weights |-> weights_461, zero_A |-> FALSE]

Kernel_Q2 ==
  [name |-> "Q2", space_dim |-> 27, nq |-> 4, nb |-> 3,
   ds0 |-> 9, ds1 |-> 3, qs0 |-> 16, qs1 |-> 4,
   PF |-> Products_Q2, PG |-> GeometryProducts_Q2,
   weights |-> weights_be1, zero_A |-> TRUE]

\* coordinate_dofs[(4 * ic0 + 2 * ic1 + ic2) * 3 + comp]
CoordinateIndex(ic, comp) == (4 * ic[1] + 2 * ic[2] + ic[3]) * 3 + comp

\* w[..] and A[..]: 4 * i0 + 2 * i1 + i2 in Q1, 9 * i0 + 3 * i1 + i2 in Q2
DofIndex(K, i) == K.ds0 * i[1] + K.ds1 * i[2] + i[3]

\* weights[..]: 9 * iq0 + 3 * iq1 + iq2 in Q1, 16 * iq0 + 4 * iq1 + iq2 in Q2
WeightIndex_short(K, iq) == K.qs1 * iq[1] + K.qs1 * iq[2] + iq[3]
WeightIndex(K, iq) == K.qs0 * iq[1] + K.qs1 * iq[2] + iq[3]

\* position of the quadrature triple iq in loop order, 1-based
QuadOrdinal(K, iq) == K.nq * K.nq * iq[1] + K.nq * iq[2] + iq[3] + 1

\* Section "Jacobian": J[3 * comp + dir + 1] is J_c(3 * comp + dir), each
\*   J_c += coordinate_dofs[(4 * ic0 + 2 * ic1 + ic2) * 3 + comp] * (product)
Jacobian(K, coordinate_dofs, iq) ==
  LET ics == Triples(2)
      q == QuadOrdinal(K, iq)
  IN Force([j \in 1..9 |->
       LET comp == (j - 1) \div 3
           dir == (j - 1) % 3
       IN Accumulate(RZero,
            [k \in 1..Len(ics) |->
               RMul(coordinate_dofs[CoordinateIndex(ics[k], comp) + 1],
                    K.PG[dir + 1][q][k])], 1)])

\* Section "Coefficient": <<w0_d100, w0_d010, w0_d001>>
Coefficient(K, w, iq) ==
  LET ics == Triples(K.nb)
      q == QuadOrdinal(K, iq)
  IN Force([d \in 1..3 |->
       Accumulate(RZero,
         [k \in 1..Len(ics) |->
            RMul(w[DofIndex(K, ics[k]) + 1],
                 K.PF[d][q][k])], 1)])

\* Section "Intermediates": <<fw0, fw1, fw2>> (sv_N is sv_461_N / sv_be1_N)
Intermediates(J, wd, c0, weight) ==
  LET J_c0 == J[1]
      J_c1 == J[2]
      J_c2 == J[3]
      J_c3 == J[4]
      J_c4 == J[5]
      J_c5 == J[6]
      J_c6 == J[7]
      J_c7 == J[8]
      J_c8 == J[9]
      w0_d100 == wd[1]
      w0_d010 == wd[2]
      w0_d001 == wd[3]
      sv_0 == RMul(J_c4, J_c8)
      sv_1 == RMul(J_c5, J_c7)
      sv_2 == RNeg(sv_1)
      sv_3 == RAdd(sv_0, sv_2)
      sv_4 == RMul(J_c0, sv_3)
      sv_5 == RMul(J_c3, J_c8)
      sv_6 == RMul(J_c5, J_c6)
      sv_7 == RNeg(sv_6)
      sv_8 == RAdd(sv_5, sv_7)
      sv_9 == RNeg(J_c1)
      sv_10 == RMul(sv_8, sv_9)
      sv_11 == RAdd(sv_4, sv_10)
      sv_12 == RMul(J_c3, J_c7)
      sv_13 == RMul(J_c4, J_c6)
      sv_14 == RNeg(sv_13)
      sv_15 == RAdd(sv_12, sv_14)
      sv_16 == RMul(J_c2, sv_15)
      sv_17 == RAdd(sv_11, sv_16)
      sv_18 == RDiv(sv_3, sv_17)
      sv_19 == RNeg(J_c8)
      sv_20 == RMul(J_c3, sv_19)
      sv_21 == RAdd(sv_6, sv_20)
      sv_22 == RDiv(sv_21, sv_17)
      sv_23 == RDiv(sv_15, sv_17)
      sv_24 == RMul(w0_d100, sv_18)
      sv_25 == RMul(w0_d010, sv_22)
      sv_26 == RAdd(sv_24, sv_25)
      sv_27 == RMul(w0_d001, sv_23)
      sv_28 == RAdd(sv_26, sv_27)
      sv_29 == RMul(sv_28, sv_18)
      sv_30 == RMul(sv_28, sv_22)
      sv_31 == RMul(sv_28, sv_23)
      sv_32 == RMul(J_c2, J_c7)
      sv_33 == RMul(J_c8, sv_9)
      sv_34 == RAdd(sv_32, sv_33)
      sv_35 == RDiv(sv_34, sv_17)
      sv_36 == RMul(J_c0, J_c8)
      sv_37 == RNeg(J_c2)
      sv_38 == RMul(J_c6, sv_37)
      sv_39 == RAdd(sv_36, sv_38)
      sv_40 == RDiv(sv_39, sv_17)
      sv_41 == RMul(J_c1, J_c6)
      sv_42 == RMul(J_c0, J_c7)
      sv_43 == RNeg(sv_42)
      sv_44 == RAdd(sv_41, sv_43)
      sv_45 == RDiv(sv_44, sv_17)
      sv_46 == RMul(w0_d100, sv_35)
      sv_47 == RMul(w0_d010, sv_40)
      sv_48 == RAdd(sv_46, sv_47)
      sv_49 == RMul(w0_d001, sv_45)
      sv_50 == RAdd(sv_48, sv_49)
      sv_51 == RMul(sv_50, sv_35)
      sv_52 == RMul(sv_50, sv_40)
      sv_53 == RMul(sv_50, sv_45)
      sv_54 == RAdd(sv_51, sv_29)
      sv_55 == RAdd(sv_52, sv_30)
      sv_56 == RAdd(sv_31, sv_53)
      sv_57 == RMul(J_c1, J_c5)
      sv_58 == RMul(J_c2, J_c4)
      sv_59 == RNeg(sv_58)
      sv_60 == RAdd(sv_57, sv_59)
      sv_61 == RDiv(sv_60, sv_17)
      sv_62 == RMul(J_c2, J_c3)
      sv_63 == RMul(J_c0, J_c5)
      sv_64 == RNeg(sv_63)
      sv_65 == RAdd(sv_62, sv_64)
      sv_66 == RDiv(sv_65, sv_17)
      sv_67 == RMul(J_c0, J_c4)
      sv_68 == RMul(J_c1, J_c3)
      sv_69 == RNeg(sv_68)
      sv_70 == RAdd(sv_67, sv_69)
      sv_71 == RDiv(sv_70, sv_17)
      sv_72 == RMul(w0_d100, sv_61)
      sv_73 == RMul(w0_d010, sv_66)
      sv_74 == RAdd(sv_72, sv_73)
      sv_75 == RMul(w0_d001, sv_71)
      sv_76 == RAdd(sv_74, sv_75)
      sv_77 == RMul(sv_76, sv_61)
      sv_78 == RMul(sv_76, sv_66)
      sv_79 == RMul(sv_76, sv_71)
      sv_80 == RAdd(sv_54, sv_77)
      sv_81 == RAdd(sv_55, sv_78)
      sv_82 == RAdd(sv_56, sv_79)
      sv_83 == RMul(c0, sv_80)
      sv_84 == RMul(c0, sv_81)
      sv_85 == RMul(c0, sv_82)
      sv_86 == fabs(sv_17)
      sv_87 == RMul(sv_83, sv_86)
      sv_88 == RMul(sv_84, sv_86)
      sv_89 == RMul(sv_85, sv_86)
      fw0 == RMul(sv_87, weight)
      fw1 == RMul(sv_88, weight)
      fw2 == RMul(sv_89, weight)
  IN <<fw0, fw1, fw2>>

\* Section "Tensor Computation" at one quadrature point, from the k-th triple
\* (i0, i1, i2) of its loop nest on:
\*   A[ds0 * i0 + ds1 * i1 + i2] += fw0 * (..); += fw1 * (..); += fw2 * (..)
RECURSIVE TensorComputation(_, _, _, _, _, _)
TensorComputation(K, A, fw, q, is, k) ==
  IF k > Len(is) THEN A
  ELSE LET slot == DofIndex(K, is[k]) + 1
       IN CHOOSE Aend \in
            { TensorComputation(K, A1, fw, q, is, k + 1) :
                A1 \in { [A EXCEPT ![slot] =
                            RAdd(RAdd(RAdd(@, RMul(fw[1], K.PF[1][q][k])),
                                      RMul(fw[2], K.PF[2][q][k])),
                                 RMul(fw[3], K.PF[3][q][k]))] } } : TRUE

\* one pass of the body of the quadrature loop nest
\* (J, wd and fw are bound through singleton sets so that each is evaluated once)
QuadraturePoint(K, coordinate_dofs, w, c0, A, iq) ==
  LET weight == K.weights[WeightIndex(K, iq) + 1]
  IN CHOOSE A1 \in
       { TensorComputation(K, A, fw, QuadOrdinal(K, iq), Triples(K.nb), 1) :
           fw \in { Intermediates(J, wd, c0, weight) :
                      J \in {Jacobian(K, coordinate_dofs, iq)},
                      wd \in {Coefficient(K, w, iq)} } } : TRUE

\* for (iq0 < nq) for (iq1 < nq) for (iq2 < nq) { ... } from the k-th triple on
RECURSIVE QuadratureLoop(_, _, _, _, _, _, _)
QuadratureLoop(K, coordinate_dofs, w, c0, A, iqs, k) ==
  IF k > Len(iqs) THEN A
  ELSE CHOOSE Aend \in
         { QuadratureLoop(K, coordinate_dofs, w, c0, A1, iqs, k + 1) :
             A1 \in {QuadraturePoint(K, coordinate_dofs, w, c0, A, iqs[k])} } : TRUE

----------------------------------------------------------------------------
(* State *)

VARIABLES
  op,            \* the MatFreeLaplace object (private members, lines 715-721)
  vec,           \* device vectors the caller owns: vec[v][d + 1] is entry d
  hpc,           \* the host: "idle" between calls, "fatal" once err_check has fired
  calls,         \* one record per operator() call, in call order
  stream,        \* kernels launched on the null stream and not yet retired
  unit,          \* threads of the executing kernel that passed  id < N
  launched,      \* cells launched so far (bounded by MaxCells)
  vec0,          \* history: the vectors as the caller first filled them
  base,          \* history: the vectors when the executing kernel began
  total,         \* history: sum of the contributions of retired kernels
  lg,            \* launch geometry: one grid of thread blocks and what it covered
  initialised,   \* bool initialised  of the telemetry file
  rsmi_refs,     \* the monitoring library: times initialised and not yet shut down
  smi_ops,       \* telemetry operations made so far (bounded by MaxSmiOps)
  smi_last,      \* history: what the latest telemetry operation did
  smi_inits,     \* history: initialise_rocm_smi calls so far, by outcome
  lin,           \* the kernel body applied to a combination of two fields
  walk           \* the loop nests of the kernel body, index by index

kvars == <<op, vec, hpc, calls, stream, unit, launched, vec0, base, total>>

svars == <<initialised, rsmi_refs, smi_ops, smi_last, smi_inits>>

pvars == <<lin, walk>>

vars == <<op, vec, hpc, calls, stream, unit, launched, vec0, base, total, lg,
          initialised, rsmi_refs, smi_ops, smi_last, smi_inits, lin, walk>>

\* total number of cells that the calls of one behaviour may launch
MaxCells == 2

\* dim3 block_size(256)
block_size == 256

\* the caller's vectors: u holds a ramp in x, c the constant 1, y zeros
VecIds == {"u", "c", "y"}

\* (in, out) arguments of operator(): a field into the accumulator y, or a field
\* into itself.  The caller passes as input only a vector that no earlier call
\* accumulated into, which keeps every numerator and denominator within TLC's
\* integers.
ApplyPairs == {<<"u", "y">>, <<"c", "y">>, <<"u", "u">>}

\* contents an uninitialised double can hold
GarbageValues == {RZero, ROne}

----------------------------------------------------------------------------
(* Function spaces the caller builds the operator for *)

\* nodes 4 * ix + 2 * iy + iz of two unit cubes side by side in x
TwoCubes_x == Force([k \in 1..36 |->
                 LET g == (k - 1) \div 3
                     comp == (k - 1) % 3
                 IN RInt(IF comp = 0 THEN g \div 4
                         ELSE IF comp = 1 THEN (g \div 2) % 2 ELSE g % 2)])

TwoCubes_x_dofmap == <<0, 1, 2, 3, 4, 5, 6, 7,   4, 5, 6, 7, 8, 9, 10, 11>>

OneCube_x == SubSeq(TwoCubes_x, 1, 24)

OneCube_x_dofmap == <<0, 1, 2, 3, 4, 5, 6, 7>>

\* degree 1 on the two cubes: dof 11 - g at node g (the cells share dofs 4..7)
Space_Q1 ==
  [degree |-> 1, cells |-> 2, ndofs |-> 12,
   x |-> TwoCubes_x, x_dofmap |-> TwoCubes_x_dofmap,
   dofmap |-> [k \in 1..16 |-> 11 - TwoCubes_x_dofmap[k]],
   ramp |-> [d \in 1..12 |-> RInt((11 - (d - 1)) \div 4)]]

\* degree 2 on one cube: dof 9 * i0 + 3 * i1 + i2, nodes 0, 1 at the ends and 2 at
\* the middle of each direction
Space_Q2 ==
  [degree |-> 2, cells |-> 1, ndofs |-> 27,
   x |-> OneCube_x, x_dofmap |-> OneCube_x_dofmap,
   dofmap |-> [k \in 1..27 |-> k - 1],
   ramp |-> [d \in 1..27 |->
               LET i0 == (d - 1) \div 9
               IN IF i0 = 0 THEN RZero ELSE IF i0 = 1 THEN ROne ELSE <<1, 2>>]]

\* degree 3 on one cube: 64 dofs per cell
Space_Q3 ==
  [degree |-> 3, cells |-> 1, ndofs |-> 64,
   x |-> OneCube_x, x_dofmap |-> OneCube_x_dofmap,
   dofmap |-> [k \in 1..64 |-> k - 1],
   ramp |-> [d \in 1..64 |-> RInt((d - 1) \div 32)]]

Spaces == {Space_Q1, Space_Q2, Space_Q3}

SpaceOf(degree) == CHOOSE s \in Spaces : s.degree = degree

NoOperator ==
  [status |-> "none", degree |-> 0, tabulate_tensor |-> "unset", num_cells |-> 0,
   constants |-> <<>>, x |-> <<>>, x_dofmap |-> <<>>, dofmap |-> <<>>]

NoLaunch == [N |-> 0, grid |-> 0, block |-> 0, b |-> 0, cover |-> <<>>, outside |-> 0]

NoTelemetry == [op |-> "none", queries |-> 0, stale |-> 0, lines |-> <<>>, ret |-> "void"]

NoLinear == [fn |-> "none", done |-> FALSE]

NoWalk == [fn |-> "none", done |-> FALSE]

SmiInit ==
  /\ initialised = FALSE
  /\ rsmi_refs = 0
  /\ smi_ops = 0
  /\ smi_last = NoTelemetry
  /\ smi_inits = [success |-> 0, failure |-> 0]

\* no pure-function check is in progress
PureIdle ==
  /\ lin = NoLinear
  /\ walk = NoWalk

KernelIdle ==
  /\ op = NoOperator
  /\ hpc = "idle"
  /\ calls = <<>>
  /\ stream = <<>>
  /\ unit = <<>>
  /\ launched = 0

Init ==
  /\ KernelIdle
  /\ \E s \in Spaces :
       /\ vec = [v \in VecIds |->
                  CASE v = "u" -> s.ramp
                    [] v = "c" -> [d \in 1..s.ndofs |-> ROne]
                    [] OTHER -> [d \in 1..s.ndofs |-> RZero]]
       /\ vec0 = vec
       /\ base = vec
       /\ total = [v \in VecIds |-> [d \in 1..s.ndofs |-> RZero]]
  /\ lg = NoLaunch
  /\ SmiInit
  /\ PureIdle

ndofs == Len(vec0["u"])

----------------------------------------------------------------------------
(* MatFreeLaplace: constructor and operator() *)

\* the value of the member tabulate_tensor after  switch (degree)
BoundKernel_swapped(degree, indeterminate) ==
  CASE degree = 1 -> "Q2"
    [] degree = 2 -> "Q1"
    [] OTHER -> indeterminate
BoundKernel(degree, indeterminate) ==
  CASE degree = 1 -> "Q1"
    [] degree = 2 -> "Q2"
    [] OTHER -> indeterminate   \* default: break; the member is never assigned

\* MatFreeLaplace(degree, num_cells, constants, x, x_dofmap, dofmap); the
\* object does not keep degree, op.degree records the argument
Construct(degree, num_cells) ==
  /\ op.status = "none"
  /\ LET s == SpaceOf(degree)
     IN /\ s.ndofs = ndofs
        /\ num_cells \in 1..s.cells
        /\ \E indeterminate \in {"Q1", "Q2", "invalid"} :
             op' = [status |-> "constructed", degree |-> degree,
                    tabulate_tensor |-> BoundKernel(degree, indeterminate),
                    num_cells |-> num_cells, constants |-> <<ROne>>,
                    x |-> s.x, x_dofmap |-> s.x_dofmap, dofmap |-> s.dofmap]
  /\ UNCHANGED <<vec, hpc, calls, stream, unit, launched, vec0, base, total>>
  /\ UNCHANGED <<lg, initialised, rsmi_refs, smi_ops, smi_last, smi_inits>>
  /\ UNCHANGED pvars

\* dim3 grid_size((num_cells + block_size.x - 1) / block_size.x)
grid_size_floor(num_cells) == num_cells \div block_size
grid_size(num_cells) == (num_cells + block_size - 1) \div block_size

\* hipLaunchKernelGGL(tabulate_tensor, grid_size, block_size, 0, 0, num_cells,
\*                    Aglobal, wglobal, constants, x, x_dofmap, dofmap)
LaunchedKernel(in, out) ==
  [fn |-> op.tabulate_tensor, N |-> op.num_cells,
   grid |-> grid_size(op.num_cells), block |-> block_size,
   Aglobal |-> out, wglobal |-> in, constants |-> op.constants,
   x |-> op.x, x_dofmap |-> op.x_dofmap, dofmap |-> op.dofmap,
   call |-> Len(calls) + 1]

\* what hipGetLastError() returns after the launch: the runtime refuses a
\* function it does not know, and may refuse any launch
LaunchStatus(accepted) ==
  IF accepted /\ op.tabulate_tensor \in {"Q1", "Q2"}
  THEN "hipSuccess" ELSE "hipErrorLaunchFailure"

\* err_check(e): returns on hipSuccess, otherwise ends the call with a fatal error
err_check_ignore(e) == "idle"
err_check(e) == IF e = "hipSuccess" THEN "idle" ELSE "fatal"

\* operator()(in, out): the launch, then err_check(hipGetLastError()); the call
\* returns without waiting for the kernel
Apply(in, out) ==
  /\ op.status = "constructed"
  /\ hpc = "idle"
  /\ launched + op.num_cells <= MaxCells
  /\ \A n \in 1..Len(calls) : calls[n].out # in
  /\ \E accepted \in BOOLEAN :
       LET e == LaunchStatus(accepted)
       IN /\ stream' = IF e = "hipSuccess"
                       THEN Append(stream, LaunchedKernel(in, out)) ELSE stream
          /\ hpc' = err_check(e)
          /\ calls' = Append(calls,
                        [in |-> in, out |-> out, error |-> e,
                         result |-> IF err_check(e) = "idle" THEN "ok" ELSE "fatal",
                         kernel |-> IF e = "hipSuccess" THEN "queued" ELSE "none",
                         missing |-> {}])
  /\ launched' = launched + op.num_cells
  /\ UNCHANGED <<op, vec, unit, vec0, base, total>>
  /\ UNCHANGED <<lg, initialised, rsmi_refs, smi_ops, smi_last, smi_inits>>
  /\ UNCHANGED pvars

----------------------------------------------------------------------------
(* The null stream runs the launched kernels one after another *)

\* int id = blockIdx.x * blockDim.x + threadIdx.x;  if (id < N) { ... }
ThreadEnters_short(id, N) == id < N - 1
ThreadEnters(id, N) == id < N

\* the threads of a launch that execute the kernel body
EnteredThreads(k) == {id \in 0..(k.grid * k.block - 1) : ThreadEnters(id, k.N)}

\* the kernel a function pointer value runs
KernelNamed(fn) == IF fn = "Q1" THEN Kernel_Q1 ELSE Kernel_Q2

KernelVariant(k) == KernelNamed(k.fn)

\* the kernel at the head of the stream starts: its grid of threads exists
KernelBegin ==
  /\ stream # <<>>
  /\ calls[Head(stream).call].kernel = "queued"
  /\ unit' = [id \in EnteredThreads(Head(stream)) |->
                [pc |-> "gather", i |-> 0, w |-> <<>>, A |-> <<>>]]
  /\ calls' = [calls EXCEPT ![Head(stream).call].kernel = "running"]
  /\ base' = vec
  /\ UNCHANGED <<op, vec, hpc, stream, launched, vec0, total>>
  /\ UNCHANGED <<lg, initialised, rsmi_refs, smi_ops, smi_last, smi_inits>>
  /\ UNCHANGED pvars

\* dofmap[id * space_dim + i]
FieldDof_local(k, id, i) == k.dofmap[i + 1]
FieldDof(k, id, i) == k.dofmap[id * KernelVariant(k).space_dim + i + 1]

\* the next access of thread id to a global vector
NextAccess(k, id) ==
  CASE unit[id].pc = "gather" ->
         [kind |-> "read", v |-> k.wglobal, d |-> FieldDof(k, id, unit[id].i)]
    [] unit[id].pc = "scatter" ->
         [kind |-> "atomicAdd", v |-> k.Aglobal, d |-> FieldDof(k, id, unit[id].i)]
    [] OTHER -> [kind |-> "none", v |-> "", d |-> 0]

\* w[i] = wglobal[dofmap[id * space_dim + i]]
Gather(id) ==
  /\ unit[id].pc = "gather"
  /\ LET k == Head(stream)
         a == NextAccess(k, id)
         last == unit[id].i + 1 = KernelVariant(k).space_dim
     IN unit' = [unit EXCEPT ![id] =
                   [@ EXCEPT !.w = Append(@, vec[a.v][a.d + 1]),
                             !.i = IF last THEN 0 ELSE @ + 1,
                             !.pc = IF last THEN "quad" ELSE "gather"]]
  /\ UNCHANGED <<op, vec, hpc, calls, stream, launched, vec0, base, total>>
  /\ UNCHANGED <<lg, initialised, rsmi_refs, smi_ops, smi_last, smi_inits>>
  /\ UNCHANGED pvars

\* coordinate_dofs[i * 3 + c] = coordinate_dofs_global[geom_dofmap[id * 8 + i] * 3 + c]
GatherCoordinates(x, x_dofmap, id) ==
  Force([n \in 1..24 |->
           x[x_dofmap[id * 8 + ((n - 1) \div 3) + 1] * 3 + ((n - 1) % 3) + 1]])

CoordinateDofs(id) == GatherCoordinates(Head(stream).x, Head(stream).x_dofmap, id)

\* double A[space_dim]: zero-filled by Q2, left as it is by Q1
LocalTensor(K, g) ==
  Force([a \in 1..K.space_dim |-> IF K.zero_A THEN RZero ELSE g])

\* the thread-local part of the kernel body: A after the quadrature loop, from
\* the gathered coordinates cd and field w, the constant c0 and what A held
CellTensor(fn, cd, w, c0, g) ==
  LET K == KernelNamed(fn)
  IN QuadratureLoop(K, cd, w, c0, LocalTensor(K, g), Triples(K.nq), 1)

\* <<fn, cd, w, c0, g>> of every thread that gathers a field as the caller
\* filled it, for each space and each kernel its operator can be bound to
UnracedInputs ==
  UNION { UNION { { <<fn, GatherCoordinates(s.x, s.x_dofmap, id),
                      Force([i \in 1..KernelNamed(fn).space_dim |->
                               f[s.dofmap[id * KernelNamed(fn).space_dim + i] + 1]]),
                      ROne, g>> :
                      id \in 0..(s.cells - 1),
                      f \in {s.ramp, [d \in 1..s.ndofs |-> ROne]},
                      g \in IF KernelNamed(fn).zero_A THEN {RZero} ELSE GarbageValues } :
                  fn \in {BoundKernel(s.degree, ind) : ind \in {"Q1", "Q2"}} } :
          s \in Spaces }

\* CellTensor of those inputs, evaluated once (@@ makes the function a table)
UnracedTensors ==
  [in \in UnracedInputs |-> CellTensor(in[1], in[2], in[3], in[4], in[5])] @@ <<>>

\* CellTensor of in = <<fn, cd, w, c0, g>>, looked up where it is tabulated
TensorOf(in) ==
  IF in \in UnracedInputs THEN UnracedTensors[in]
  ELSE CellTensor(in[1], in[2], in[3], in[4], in[5])

\* the thread-local part: coordinate gather, declaration of A, quadrature loop
Quadrature(id) ==
  /\ unit[id].pc = "quad"
  /\ LET K == KernelVariant(Head(stream))
     IN \E g \in IF K.zero_A THEN {RZero} ELSE GarbageValues :
          \E in \in {<<K.name, CoordinateDofs(id), unit[id].w,
                       Head(stream).constants[1], g>>} :
            \E A \in {TensorOf(in)} :
              unit' = [unit EXCEPT ![id] = [@ EXCEPT !.A = A, !.pc = "scatter"]]
  /\ UNCHANGED <<op, vec, hpc, calls, stream, launched, vec0, base, total>>
  /\ UNCHANGED <<lg, initialised, rsmi_refs, smi_ops, smi_last, smi_inits>>
  /\ UNCHANGED pvars

\* atomicAdd(&Aglobal[dofmap[id * space_dim + i]], A[i])
Scatter_stale(id) ==
  /\ unit[id].pc = "scatter"
  /\ LET k == Head(stream)
         a == NextAccess(k, id)
         last == unit[id].i + 1 = KernelVariant(k).space_dim
     IN /\ vec' = [vec EXCEPT ![a.v][a.d + 1] =
                     RAdd(base[a.v][a.d + 1], unit[id].A[unit[id].i + 1])]
        /\ unit' = [unit EXCEPT ![id] =
                      [@ EXCEPT !.i = IF last THEN 0 ELSE @ + 1,
                                !.pc = IF last THEN "done" ELSE "scatter"]]
  /\ UNCHANGED <<op, hpc, calls, stream, launched, vec0, base, total>>
  /\ UNCHANGED <<lg, initialised, rsmi_refs, smi_ops, smi_last, smi_inits>>
  /\ UNCHANGED pvars
Scatter_store(id) ==
  /\ unit[id].pc = "scatter"
  /\ LET k == Head(stream)
         a == NextAccess(k, id)
         last == unit[id].i + 1 = KernelVariant(k).space_dim
     IN /\ vec' = [vec EXCEPT ![a.v][a.d + 1] = unit[id].A[unit[id].i + 1]]
        /\ unit' = [unit EXCEPT ![id] =
                      [@ EXCEPT !.i = IF last THEN 0 ELSE @ + 1,
                                !.pc = IF last THEN "done" ELSE "scatter"]]
  /\ UNCHANGED <<op, hpc, calls, stream, launched, vec0, base, total>>
  /\ UNCHANGED <<lg, initialised, rsmi_refs, smi_ops, smi_last, smi_inits>>
  /\ UNCHANGED pvars
Scatter_waits(id) ==
  /\ unit[id].pc = "scatter"
  /\ \A j \in DOMAIN unit \ {id} : unit[j].pc = "done"
  /\ LET k == Head(stream)
         a == NextAccess(k, id)
         last == unit[id].i + 1 = KernelVariant(k).space_dim
     IN /\ vec' = [vec EXCEPT ![a.v][a.d + 1] = RAdd(@, unit[id].A[unit[id].i + 1])]
        /\ unit' = [unit EXCEPT ![id] =
                      [@ EXCEPT !.i = IF last THEN 0 ELSE @ + 1,
                                !.pc = IF last THEN "done" ELSE "scatter"]]
  /\ UNCHANGED <<op, hpc, calls, stream, launched, vec0, base, total>>
  /\ UNCHANGED <<lg, initialised, rsmi_refs, smi_ops, smi_last, smi_inits>>
  /\ UNCHANGED pvars
Scatter(id) ==
  /\ unit[id].pc = "scatter"
  /\ LET k == Head(stream)
         a == NextAccess(k, id)
         last == unit[id].i + 1 = KernelVariant(k).space_dim
     IN /\ vec' = [vec EXCEPT ![a.v][a.d + 1] = RAdd(@, unit[id].A[unit[id].i + 1])]
        /\ unit' = [unit EXCEPT ![id] =
                      [@ EXCEPT !.i = IF last THEN 0 ELSE @ + 1,
                                !.pc = IF last THEN "done" ELSE "scatter"]]
  /\ UNCHANGED <<op, hpc, calls, stream, launched, vec0, base, total>>
  /\ UNCHANGED <<lg, initialised, rsmi_refs, smi_ops, smi_last, smi_inits>>
  /\ UNCHANGED pvars

Executing == stream # <<>> /\ calls[Head(stream).call].kernel = "running"

AllDone == Executing /\ \A id \in DOMAIN unit : unit[id].pc = "done"

\* sum of the entries A[i] that the threads of the executing kernel hold for
\* dof d, over the pairs n = id * space_dim + i from n on
RECURSIVE Contribution(_, _, _)
Contribution(k, d, n) ==
  LET sd == KernelVariant(k).space_dim
      id == n \div sd
  IN IF id >= k.N \/ id \notin DOMAIN unit THEN RZero
     ELSE RAdd(IF k.dofmap[n + 1] = d /\ unit[id].pc # "gather" /\ unit[id].pc # "quad"
               THEN unit[id].A[(n % sd) + 1] ELSE RZero,
               Contribution(k, d, n + 1))

\* the executing kernel has finished and leaves the stream
KernelEnd ==
  /\ AllDone
  /\ LET k == Head(stream)
     IN /\ total' = [total EXCEPT ![k.Aglobal] =
                       [d \in 1..ndofs |-> RAdd(@[d], Contribution(k, d - 1, 0))]]
        /\ calls' = [calls EXCEPT ![k.call].kernel = "done",
                                  ![k.call].missing =
                                     {c \in 0..(op.num_cells - 1) : c \notin DOMAIN unit}]
  /\ stream' = Tail(stream)
  /\ unit' = <<>>
  /\ UNCHANGED <<op, vec, hpc, launched, vec0, base>>
  /\ UNCHANGED <<lg, initialised, rsmi_refs, smi_ops, smi_last, smi_inits>>
  /\ UNCHANGED pvars

Next ==
  \/ \E degree \in 1..3, num_cells \in 1..MaxCells : Construct(degree, num_cells)
  \/ \E p \in ApplyPairs : Apply(p[1], p[2])
  \/ KernelBegin
  \/ \E id \in DOMAIN unit : Gather(id)
  \/ \E id \in DOMAIN unit : Quadrature(id)
  \/ \E id \in DOMAIN unit : Scatter(id)
  \/ KernelEnd

Spec == Init /\ [][Next]_vars

\* one step of the thread with index id, if the executing kernel has it
UnitStep(id) == id \in DOMAIN unit /\ (Gather(id) \/ Quadrature(id) \/ Scatter(id))

\* the device keeps going: the stream starts the kernel at its head and retires
\* it when its threads are done, and every thread that can step eventually does
Fairness ==
  /\ WF_vars(KernelBegin)
  /\ WF_vars(KernelEnd)
  /\ \A id \in 0..(MaxCells - 1) : WF_vars(UnitStep(id))

\* the degree-1 operator on the two cubes, applied to a field into the
\* accumulator y
InitFair == Init /\ ndofs = Space_Q1.ndofs

NextFair ==
  \/ \E num_cells \in 1..MaxCells : Construct(1, num_cells)
  \/ \E p \in ApplyPairs : p[1] # p[2] /\ Apply(p[1], p[2])
  \/ KernelBegin
  \/ \E id \in DOMAIN unit : Gather(id)
  \/ \E id \in DOMAIN unit : Quadrature(id)
  \/ \E id \in DOMAIN unit : Scatter(id)
  \/ KernelEnd

SpecFair == InitFair /\ [][NextFair]_vars /\ Fairness

----------------------------------------------------------------------------
(* Launch geometry: the grid of one launch, block by block *)

\* largest num_cells of the launches examined block by block
MaxNumCells == 520

\* operator() computes block_size and grid_size for num_cells
LaunchGeometry(num_cells) ==
  /\ lg.N = 0
  /\ lg' = [N |-> num_cells, grid |-> grid_size(num_cells), block |-> block_size,
            b |-> 0, cover |-> [c \in 1..num_cells |-> 0], outside |-> 0]
  /\ UNCHANGED kvars
  /\ UNCHANGED svars
  /\ UNCHANGED pvars

\* the threads of block b run: id = blockIdx.x * blockDim.x + threadIdx.x, and
\* a thread that passes  id < N  works on cell id
BlockRun ==
  /\ lg.N > 0
  /\ lg.b < lg.grid
  /\ LET first == lg.b * lg.block
         inBlock(id) == first <= id /\ id < first + lg.block
     IN lg' = [lg EXCEPT
                 !.b = @ + 1,
                 !.cover = [c \in 1..lg.N |->
                              @[c] + IF inBlock(c - 1) /\ ThreadEnters(c - 1, lg.N)
                                     THEN 1 ELSE 0],
                 !.outside = @ + Cardinality({id \in first..(first + lg.block - 1) :
                                                ThreadEnters(id, lg.N) /\ id >= lg.N})]
  /\ UNCHANGED kvars
  /\ UNCHANGED svars
  /\ UNCHANGED pvars

InitLaunch ==
  /\ KernelIdle
  /\ vec = [v \in VecIds |-> <<>>]
  /\ vec0 = vec
  /\ base = vec
  /\ total = vec
  /\ lg = NoLaunch
  /\ SmiInit
  /\ PureIdle

NextLaunch ==
  \/ \E num_cells \in 1..MaxNumCells : LaunchGeometry(num_cells)
  \/ BlockRun

SpecLaunch == InitLaunch /\ [][NextLaunch]_vars

----------------------------------------------------------------------------
(* ROCm SMI telemetry *)

\* telemetry operations of one behaviour
MaxSmiOps == 4

\* devices the monitoring library reports while it is initialised
NumDevices == 2

\* RSMI_MEM_TYPE_FIRST .. RSMI_MEM_TYPE_LAST: VRAM, visible VRAM, GTT
MemTypes == 3

\* rsmi_init and rsmi_shut_down count: the library is up between the first
\* rsmi_init and the matching last rsmi_shut_down
RsmiUp == rsmi_refs > 0

\* the record of one operation; a query is stale when the library is down
Telemetry(name, queries, lines, ret) ==
  [op |-> name, queries |-> queries, stale |-> IF RsmiUp THEN 0 ELSE queries,
   lines |-> lines, ret |-> ret]

\* int initialise_rocm_smi(): rsmi_init(0); initialised = true on success
initialise_rocm_smi_always ==
  /\ smi_ops < MaxSmiOps
  /\ \E ret \in {"RSMI_STATUS_SUCCESS", "RSMI_STATUS_INIT_ERROR"} :
       /\ initialised' = TRUE
       /\ rsmi_refs' = IF ret = "RSMI_STATUS_SUCCESS" THEN rsmi_refs + 1 ELSE rsmi_refs
       /\ smi_last' = [op |-> "initialise_rocm_smi", queries |-> 0, stale |-> 0,
                       lines |-> <<>>, ret |-> ret]
       /\ smi_inits' = IF ret = "RSMI_STATUS_SUCCESS"
                        THEN [smi_inits EXCEPT !.success = @ + 1]
                        ELSE [smi_inits EXCEPT !.failure = @ + 1]
  /\ smi_ops' = smi_ops + 1
  /\ UNCHANGED kvars
  /\ UNCHANGED lg
  /\ UNCHANGED pvars
initialise_rocm_smi ==
  /\ smi_ops < MaxSmiOps
  /\ \E ret \in {"RSMI_STATUS_SUCCESS", "RSMI_STATUS_INIT_ERROR"} :
       /\ initialised' = IF ret = "RSMI_STATUS_SUCCESS" THEN TRUE ELSE initialised
       /\ rsmi_refs' = IF ret = "RSMI_STATUS_SUCCESS" THEN rsmi_refs + 1 ELSE rsmi_refs
       /\ smi_last' = [op |-> "initialise_rocm_smi", queries |-> 0, stale |-> 0,
                       lines |-> <<>>, ret |-> ret]
       /\ smi_inits' = IF ret = "RSMI_STATUS_SUCCESS"
                        THEN [smi_inits EXCEPT !.success = @ + 1]
                        ELSE [smi_inits EXCEPT !.failure = @ + 1]
  /\ smi_ops' = smi_ops + 1
  /\ UNCHANGED kvars
  /\ UNCHANGED lg
  /\ UNCHANGED pvars

\* int shutdown_rocm_smi(): rsmi_shut_down() if initialised; the flag stays set
shutdown_rocm_smi ==
  /\ smi_ops < MaxSmiOps
  /\ rsmi_refs' = IF initialised /\ RsmiUp THEN rsmi_refs - 1 ELSE rsmi_refs
  /\ smi_last' = [op |-> "shutdown_rocm_smi", queries |-> 0, stale |-> 0,
                  lines |-> <<>>,
                  ret |-> IF ~initialised THEN "0"
                          ELSE IF RsmiUp THEN "RSMI_STATUS_SUCCESS"
                          ELSE "RSMI_STATUS_INIT_ERROR"]
  /\ smi_ops' = smi_ops + 1
  /\ UNCHANGED <<initialised, smi_inits>>
  /\ UNCHANGED kvars
  /\ UNCHANGED lg
  /\ UNCHANGED pvars

\* what num_monitored_devices() returns: its local starts at 0, the library is
\* asked only if initialised, and a library that is down stores nothing
MonitoredDevices == IF initialised /\ RsmiUp THEN NumDevices ELSE 0

\* uint32_t num_monitored_devices()
num_monitored_devices ==
  /\ smi_ops < MaxSmiOps
  /\ smi_last' = Telemetry("num_monitored_devices", IF initialised THEN 1 ELSE 0,
                           <<>>, MonitoredDevices)
  /\ smi_ops' = smi_ops + 1
  /\ UNCHANGED <<initialised, rsmi_refs, smi_inits>>
  /\ UNCHANGED kvars
  /\ UNCHANGED lg
  /\ UNCHANGED pvars

\* devices whose loop body is entered when device query number `failing` is the
\* first to fail (counted from 0 over the whole loop; per_device queries a
\* device; failing = all of them: none fails)
DevicesEntered(failing, per_device) ==
  IF failing < MonitoredDevices * per_device
  THEN (failing \div per_device) + 1 ELSE MonitoredDevices

\* library queries of one print operation: num_monitored_devices() in the loop
\* condition before every iteration, and the device queries up to the first
\* that fails
PrintQueries(failing, per_device) ==
  IF failing < MonitoredDevices * per_device
  THEN DevicesEntered(failing, per_device) + failing + 1
  ELSE (MonitoredDevices + 1) + MonitoredDevices * per_device

\* what a print operation writes for the devices it enters: `early` operations
\* start the line before the queries and add one part per memory type
\* (per_part queries each), the others write the whole line after their query;
\* return on the first failure
PrintedLines(failing, per_device, per_part, early) ==
  LET succeeded(i) ==
        IF failing >= (i + 1) * per_device THEN per_device ELSE failing - i * per_device
      entered == DevicesEntered(failing, per_device)
      written == IF early \/ failing >= entered * per_device THEN entered
                 ELSE entered - 1
  IN [n \in 1..written |->
        [gpu |-> n - 1, parts |-> succeeded(n - 1) \div per_part,
         complete |-> succeeded(n - 1) = per_device]]

\* the common shape of the four print operations
PrintOp(name, per_device, per_part, early) ==
  /\ smi_ops < MaxSmiOps
  /\ IF initialised
     THEN \E failing \in 0..(MonitoredDevices * per_device) :
            smi_last' = Telemetry(name, PrintQueries(failing, per_device),
                                  PrintedLines(failing, per_device, per_part, early),
                                  "void")
     ELSE smi_last' = Telemetry(name, 0, <<"ROCm SMI not initialised">>, "void")
  /\ smi_ops' = smi_ops + 1
  /\ UNCHANGED <<initialised, rsmi_refs, smi_inits>>
  /\ UNCHANGED kvars
  /\ UNCHANGED lg
  /\ UNCHANGED pvars

\* void print_amd_gpu_memory_busy(char const *text)
print_amd_gpu_memory_busy == PrintOp("print_amd_gpu_memory_busy", 1, 1, FALSE)

\* void print_amd_gpu_memory_used(char const *text)
print_amd_gpu_memory_used == PrintOp("print_amd_gpu_memory_used", MemTypes, 1, TRUE)

\* void print_amd_gpu_memory_total(char const *text)
print_amd_gpu_memory_total == PrintOp("print_amd_gpu_memory_total", MemTypes, 1, TRUE)

\* void print_amd_gpu_memory_percentage_used(char const *text)
print_amd_gpu_memory_percentage_used ==
  PrintOp("print_amd_gpu_memory_percentage_used", 2 * MemTypes, 2, TRUE)

InitSmi ==
  /\ KernelIdle
  /\ vec = [v \in VecIds |-> <<>>]
  /\ vec0 = vec
  /\ base = vec
  /\ total = vec
  /\ lg = NoLaunch
  /\ SmiInit
  /\ PureIdle

NextSmi ==
  \/ initialise_rocm_smi
  \/ shutdown_rocm_smi
  \/ num_monitored_devices
  \/ print_amd_gpu_memory_busy
  \/ print_amd_gpu_memory_used
  \/ print_amd_gpu_memory_total
  \/ print_amd_gpu_memory_percentage_used

SpecSmi == InitSmi /\ [][NextSmi]_vars

----------------------------------------------------------------------------
(* The loop nests of the kernel body, one innermost iteration at a time *)

\* declared sizes of the buffers and tables of a kernel variant; FE tables are
\* [1][1][points][dofs], G* the geometry pair and F* the field pair
Extents(K) ==
  IF K.name = "Q1"
  THEN [coordinate_dofs |-> 24, w |-> 8, A |-> 8, weights |-> Len(weights_461),
        G_points |-> Len(FE_TF1_Q1), G_dofs |-> Len(FE_TF1_Q1[1]),
        F_points |-> Len(FE_TF1_Q1), F_dofs |-> Len(FE_TF1_Q1[1])]
  ELSE [coordinate_dofs |-> 24, w |-> K.space_dim, A |-> K.space_dim,
        weights |-> Len(weights_be1),
        G_points |-> Len(FE_TF2_Q2), G_dofs |-> Len(FE_TF2_Q2[1]),
        F_points |-> Len(FE_TF1_Q2), F_dofs |-> Len(FE_TF1_Q2[1])]

\* the sections of one quadrature point in source order, with the extent of the
\* i/ic loop nest of each (Intermediates has no inner loop)
Sections == <<"Jacobian", "Coefficient", "Intermediates", "Tensor">>

SectionTrips(K, sec) ==
  CASE Sections[sec] = "Jacobian" -> 2 * 2 * 2
    [] Sections[sec] = "Intermediates" -> 1
    [] OTHER -> K.nb * K.nb * K.nb

\* <<array, index, declared size>> of every subscript evaluated in the innermost
\* iteration the walk is at
WalkAccesses ==
  LET K == KernelNamed(walk.fn)
      E == Extents(K)
      iq == Triples(K.nq)[walk.q]
      sec == Sections[walk.sec]
      ic == IF sec = "Jacobian" THEN Triples(2)[walk.k]
            ELSE IF sec = "Intermediates" THEN <<0, 0, 0>>
            ELSE Triples(K.nb)[walk.k]
      tables(points, dofs) ==
        UNION {{<<"FE[points]", iq[d], points>>, <<"FE[dofs]", ic[d], dofs>>} : d \in 1..3}
  IN CASE sec = "Jacobian" ->
            {<<"coordinate_dofs", CoordinateIndex(ic, comp), E.coordinate_dofs>> :
               comp \in 0..2} \cup tables(E.G_points, E.G_dofs)
       [] sec = "Coefficient" ->
            {<<"w", DofIndex(K, ic), E.w>>} \cup tables(E.F_points, E.F_dofs)
       [] sec = "Intermediates" ->
            {<<"weights", WeightIndex(K, iq), E.weights>>}
       [] OTHER ->
            {<<"A", DofIndex(K, ic), E.A>>} \cup tables(E.F_points, E.F_dofs)

\* a thread enters the quadrature loop nest of kernel fn
WalkBegin(fn) ==
  /\ walk.fn = "none"
  /\ walk' = [fn |-> fn, q |-> 1, sec |-> 1, k |-> 1, done |-> FALSE,
              used |-> [n \in 1..Extents(KernelNamed(fn)).weights |-> 0]]
  /\ UNCHANGED <<kvars, lg, svars, lin>>

\* the next innermost iteration: next i2/ic2 (carrying into i1, i0), else the
\* next section, else the next quadrature point; the weight subscript a point
\* evaluates is counted as the walk passes its Intermediates section
WalkStep ==
  /\ walk.fn # "none"
  /\ ~walk.done
  /\ LET K == KernelNamed(walk.fn)
         counted == IF Sections[walk.sec] = "Intermediates"
                    THEN [walk.used EXCEPT
                            ![WeightIndex(K, Triples(K.nq)[walk.q]) + 1] = @ + 1]
                    ELSE walk.used
     IN walk' =
          IF walk.k < SectionTrips(K, walk.sec)
          THEN [walk EXCEPT !.k = @ + 1]
          ELSE IF walk.sec < Len(Sections)
          THEN [walk EXCEPT !.sec = @ + 1, !.k = 1, !.used = counted]
          ELSE IF walk.q < K.nq * K.nq * K.nq
          THEN [walk EXCEPT !.q = @ + 1, !.sec = 1, !.k = 1]
          ELSE [walk EXCEPT !.done = TRUE]
  /\ UNCHANGED <<kvars, lg, svars, lin>>

InitLoops ==
  /\ KernelIdle
  /\ vec = [v \in VecIds |-> <<>>]
  /\ vec0 = vec
  /\ base = vec
  /\ total = vec
  /\ lg = NoLaunch
  /\ SmiInit
  /\ PureIdle

NextLoops ==
  \/ \E fn \in {"Q1", "Q2"} : WalkBegin(fn)
  \/ WalkStep

SpecLoops == InitLoops /\ [][NextLoops]_vars

----------------------------------------------------------------------------
(* One cell, three input fields: u1, u2 and a * u1 + b * u2 *)

\* the scalars and the pairs of fields that are combined
LinearScalars == {<<RInt(2), RNeg(ROne)>>, <<RInt(2), RInt(3)>>,
                  <<RInt(-3), RNeg(ROne)>>, <<RInt(-3), RInt(3)>>}

\* fields on the dofs of space s: the ramp in x, the constant 1 and the ramp in z
\* (degree 1: dof 11 - g at node g = 4 * ix + 2 * iy + iz; degree 2: dof
\* 9 * i0 + 3 * i1 + i2 with nodes 0, 1 at the ends and 2 at the middle)
LinearFields(s) ==
  [ramp |-> s.ramp,
   one |-> [d \in 1..s.ndofs |-> ROne],
   ramp_z |-> [d \in 1..s.ndofs |->
                IF s.degree = 1 THEN RInt((11 - (d - 1)) % 2)
                ELSE LET i2 == (d - 1) % 3
                     IN IF i2 = 0 THEN RZero ELSE IF i2 = 1 THEN ROne ELSE <<1, 2>>]]

LinearPairs == {<<"ramp", "ramp_z">>, <<"ramp_z", "one">>, <<"ramp", "one">>}

\* a * f1 + b * f2, dof by dof
Combination(a, f1, b, f2) ==
  [d \in 1..Len(f1) |-> RAdd(RMul(a, f1[d]), RMul(b, f2[d]))]

\* w[i] = wglobal[dofmap[id * space_dim + i]] for all i, on cell id of space s
GatherField(s, K, id, f) ==
  Force([i \in 1..K.space_dim |-> f[s.dofmap[id * K.space_dim + i] + 1]])

\* atomicAdd(&Aglobal[dofmap[id * space_dim + i]], A[i]) for all i, cell id of
\* space s, from i on
RECURSIVE ScatterTensor(_, _, _, _, _, _)
ScatterTensor(s, K, id, A, out, i) ==
  IF i > K.space_dim THEN out
  ELSE ScatterTensor(s, K, id, A,
                     [out EXCEPT ![s.dofmap[id * K.space_dim + i] + 1] = RAdd(@, A[i])],
                     i + 1)

\* the three threads declare A and are about to enter the quadrature loop; each
\* finds its own contents in an A that is not zero-filled
LinearBegin(fn, ab, pair) ==
  /\ lin.fn = "none"
  /\ LET K == KernelNamed(fn)
         s == SpaceOf(IF fn = "Q1" THEN 1 ELSE 2)
         F == LinearFields(s)
         G == IF K.zero_A THEN {RZero} ELSE GarbageValues
     IN \E g12 \in G, g1 \in G, g2 \in G :
          lin' = [fn |-> fn, a |-> ab[1], b |-> ab[2], pair |-> pair, q |-> 0,
                  w12 |-> GatherField(s, K, 0,
                            Combination(ab[1], F[pair[1]], ab[2], F[pair[2]])),
                  w1 |-> GatherField(s, K, 0, F[pair[1]]),
                  w2 |-> GatherField(s, K, 0, F[pair[2]]),
                  A12 |-> LocalTensor(K, g12), A1 |-> LocalTensor(K, g1),
                  A2 |-> LocalTensor(K, g2),
                  y12 |-> <<>>, y1 |-> <<>>, y2 |-> <<>>, done |-> FALSE]
  /\ UNCHANGED <<kvars, lg, svars, walk>>

\* the next quadrature point, in each of the three threads
LinearPoint ==
  /\ lin.fn # "none"
  /\ LET K == KernelNamed(lin.fn)
         s == SpaceOf(IF lin.fn = "Q1" THEN 1 ELSE 2)
     IN /\ lin.q < Len(Triples(K.nq))
        /\ \E cd \in {GatherCoordinates(s.x, s.x_dofmap, 0)} :
             \E A12 \in {QuadraturePoint(K, cd, lin.w12, ROne, lin.A12,
                                          Triples(K.nq)[lin.q + 1])},
                A1 \in {QuadraturePoint(K, cd, lin.w1, ROne, lin.A1,
                                         Triples(K.nq)[lin.q + 1])},
                A2 \in {QuadraturePoint(K, cd, lin.w2, ROne, lin.A2,
                                         Triples(K.nq)[lin.q + 1])} :
               lin' = [lin EXCEPT !.q = @ + 1, !.A12 = A12, !.A1 = A1, !.A2 = A2]
  /\ UNCHANGED <<kvars, lg, svars, walk>>

\* the scatter loops, each into its own zero-filled output vector
LinearScatter ==
  /\ lin.fn # "none"
  /\ ~lin.done
  /\ LET K == KernelNamed(lin.fn)
         s == SpaceOf(IF lin.fn = "Q1" THEN 1 ELSE 2)
         zero == [d \in 1..s.ndofs |-> RZero]
     IN /\ lin.q = Len(Triples(K.nq))
        /\ lin' = [lin EXCEPT !.y12 = ScatterTensor(s, K, 0, lin.A12, zero, 1),
                              !.y1 = ScatterTensor(s, K, 0, lin.A1, zero, 1),
                              !.y2 = ScatterTensor(s, K, 0, lin.A2, zero, 1),
                              !.done = TRUE]
  /\ UNCHANGED <<kvars, lg, svars, walk>>

InitLinear ==
  /\ KernelIdle
  /\ vec = [v \in VecIds |-> <<>>]
  /\ vec0 = vec
  /\ base = vec
  /\ total = vec
  /\ lg = NoLaunch
  /\ SmiInit
  /\ PureIdle

NextLinear ==
  \/ \E fn \in {"Q1", "Q2"}, ab \in LinearScalars, pair \in LinearPairs :
       LinearBegin(fn, ab, pair)
  \/ LinearPoint
  \/ LinearScatter

SpecLinear == InitLinear /\ [][NextLinear]_vars

----------------------------------------------------------------------------
(* Properties *)

\* the cells' local tensors added to `out` strictly one cell after another,
\* from pair n = id * space_dim + i on
RECURSIVE SequentialScatter(_, _, _)
SequentialScatter(k, out, n) ==
  LET sd == KernelVariant(k).space_dim
      id == n \div sd
  IN IF id >= k.N THEN out
     ELSE SequentialScatter(k, [out EXCEPT ![op.dofmap[n + 1] + 1] =
                                  RAdd(@, unit[id].A[(n % sd) + 1])], n + 1)

\* C1: whatever the interleaving of the units' atomic adds, when all units of a
\* kernel are done the output vector equals the vector obtained by adding the
\* cells' local tensors one cell after another to the vector the kernel found.
C1_ScatterIsSequential ==
  AllDone =>
    vec[Head(stream).Aglobal] =
      SequentialScatter(Head(stream), base[Head(stream).Aglobal], 0)

\* two units are done and both added a non-zero entry to a dof they share
C1_SharedDofAccumulated ==
  /\ AllDone
  /\ DOMAIN unit = {0, 1}
  /\ \E i, j \in 0..7 :
       /\ op.dofmap[i + 1] = op.dofmap[8 + j + 1]
       /\ unit[0].A[i + 1] # RZero
       /\ unit[1].A[j + 1] # RZero

\* C2: operator() only adds.  Between kernels, and when all units of a kernel
\* are done, every entry of every vector is its initial value plus the
\* local-tensor entries A[i] of all (cell, i) with dofmap[cell * ndofs + i] = d
\* of every kernel that ran with that vector as output.
C2_OutputAccumulates ==
  (~Executing \/ AllDone) =>
    \A v \in VecIds, d \in 1..ndofs :
      vec[v][d] =
        RAdd(RAdd(vec0[v][d], total[v][d]),
             IF AllDone /\ v = Head(stream).Aglobal
             THEN Contribution(Head(stream), d - 1, 0) ELSE RZero)

\* two kernels have run into y, which was not zeroed in between
C2_TwoAppliesSummed ==
  /\ Len(calls) = 2
  /\ \A n \in 1..2 : calls[n].kernel = "done" /\ calls[n].in = "u" /\ calls[n].out = "y"
  /\ \E d \in 1..ndofs : total["y"][d] # RZero /\ vec["y"][d] = total["y"][d]

\* C3: construction with a degree other than 1 or 2 yields no operator object.
C3_UnsupportedDegreeRejected ==
  op.status = "constructed" => op.degree \in {1, 2}

\* C4: with degree 1 or 2, when only the constant field c has been applied into
\* the zero-filled y, every entry of y is zero.
C4_ConstantFieldGivesZero ==
  (/\ op.degree \in {1, 2}
   /\ \A n \in 1..Len(calls) : calls[n].out = "y" => calls[n].in = "c")
  => \A d \in 1..ndofs : vec["y"][d] = RZero

\* C5: a call whose launch failed has ended with the fatal error, it is the
\* last call of the process, and no kernel was put on the stream for it.
C5_LaunchFailureIsFatal ==
  \A n \in 1..Len(calls) :
    calls[n].error # "hipSuccess" =>
      /\ calls[n].result = "fatal"
      /\ hpc = "fatal"
      /\ n = Len(calls)
      /\ calls[n].kernel = "none"
      /\ \A s \in 1..Len(stream) : stream[s].call # n

\* a launch of a supported degree failed after an earlier call succeeded
C5_SecondLaunchFailed ==
  /\ op.degree \in {1, 2}
  /\ Len(calls) = 2
  /\ calls[1].result = "ok"
  /\ calls[2].error # "hipSuccess"

\* C6 as stated: a call that returned without error has the contributions of
\* all num_cells cells in the output vector.
C6_ReturnMeansDone ==
  \A n \in 1..Len(calls) :
    calls[n].result = "ok" => calls[n].kernel = "done" /\ calls[n].missing = {}

\* C6 amended: a call that returned without error has put one kernel over all
\* num_cells cells on the stream; the kernel runs one unit per cell and, once
\* it has retired, no cell's contribution is missing.  A call that ended with
\* the error launched nothing.
C6_ReturnMeansEnqueued ==
  \A n \in 1..Len(calls) :
    /\ calls[n].result = "ok" =>
         /\ calls[n].kernel \in {"queued", "running", "done"}
         /\ calls[n].kernel # "done" =>
              \E s \in 1..Len(stream) :
                stream[s].call = n /\ stream[s].N = op.num_cells
         /\ calls[n].kernel = "running" => DOMAIN unit = 0..(op.num_cells - 1)
         /\ calls[n].kernel = "done" => calls[n].missing = {}
    /\ calls[n].result # "ok" => calls[n].kernel = "none"

\* a call over two cells returned and its kernel retired with nothing missing
C6_TwoCellKernelRetired ==
  /\ op.num_cells = 2
  /\ Len(calls) = 1
  /\ calls[1].result = "ok"
  /\ calls[1].kernel = "done"
  /\ calls[1].missing = {}
  /\ vec # vec0

\* dofs that appear in the field dofmap of a cell in [0, N)
Referenced(k) == {op.dofmap[n] : n \in 1..(k.N * KernelVariant(k).space_dim)}

\* C7: while a kernel of an operator of degree 1 or 2 executes, the coefficient
\* vector and every other vector but the output are as the kernel found them,
\* and so is every output entry that no cell references.
C7_KernelWritesOnlyOutput ==
  (Executing /\ op.degree \in {1, 2}) =>
    LET k == Head(stream)
    IN /\ vec[k.wglobal] = base[k.wglobal]
       /\ \A v \in VecIds \ {k.Aglobal} : vec[v] = base[v]
       /\ \A d \in 1..ndofs :
            (d - 1) \notin Referenced(k) => vec[k.Aglobal][d] = base[k.Aglobal][d]

\* a plain read and an atomic add of two units target the same element
Conflict(a, b) ==
  /\ {a.kind, b.kind} = {"read", "atomicAdd"}
  /\ a.v = b.v
  /\ a.d = b.d

\* C8: no element is about to be read plainly by one unit and written by
\* another unit at the same time.
C8_NoDataRace ==
  Executing =>
    \A id1, id2 \in DOMAIN unit :
      id1 # id2 =>
        ~Conflict(NextAccess(Head(stream), id1), NextAccess(Head(stream), id2))

\* C9: blocks have 256 threads, the grid has ceil(num_cells / 256) blocks, no
\* thread with index >= num_cells enters the kernel body, no cell is worked on
\* twice, and once all blocks have run every cell was worked on exactly once.
C9_GridCoversCells ==
  lg.N > 0 =>
    /\ lg.block = 256
    /\ lg.grid * 256 >= lg.N
    /\ (lg.grid - 1) * 256 < lg.N
    /\ lg.outside = 0
    /\ \A c \in 1..lg.N : lg.cover[c] <= 1
    /\ lg.b = lg.grid => \A c \in 1..lg.N : lg.cover[c] = 1

\* a launch over 257 cells has run both of its blocks
C9_PartialLastBlockRun ==
  /\ lg.N = 257
  /\ lg.grid = 2
  /\ lg.b = 2
  /\ lg.cover[257] = 1

\* C10: no telemetry operation queries the monitoring library while it is
\* shut down.
C10_NoQueryAfterShutdown ==
  smi_last.stale = 0

PrintOperations ==
  {"print_amd_gpu_memory_busy", "print_amd_gpu_memory_used",
   "print_amd_gpu_memory_total", "print_amd_gpu_memory_percentage_used"}

\* C11: while no initialise_rocm_smi call has returned success, a telemetry
\* operation makes no library query: num_monitored_devices returns 0 and a print
\* operation writes only the not-initialised report.
C11_NoQueryBeforeInitialised ==
  smi_inits.success = 0 =>
    /\ smi_last.op = "num_monitored_devices" =>
         smi_last.queries = 0 /\ smi_last.ret = 0
    /\ smi_last.op \in PrintOperations =>
         smi_last.queries = 0 /\ smi_last.lines = <<"ROCm SMI not initialised">>

\* a print operation has run after an initialise_rocm_smi that failed
C11_PrintAfterFailedInitialise ==
  /\ smi_inits.success = 0
  /\ smi_inits.failure > 0
  /\ smi_last.op \in PrintOperations
  /\ smi_last.lines = <<"ROCm SMI not initialised">>

\* C12: a print operation whose device query fails returns normally and still
\* writes the complete line of every other monitored device.
C12_FailedQuerySuppressesOneLine ==
  (smi_last.op \in PrintOperations /\ initialised /\ RsmiUp) =>
    /\ smi_last.ret = "void"
    /\ Cardinality({n \in 1..Len(smi_last.lines) : smi_last.lines[n].complete})
         >= NumDevices - 1

\* C14: an operator constructed with degree 1 holds tabulate_tensor_Q1 (8 dofs
\* per cell), one constructed with degree 2 holds tabulate_tensor_Q2 (27), from
\* construction on; every kernel its calls launch is that function over the
\* num_cells, constants, coordinates and dofmaps the operator was built with, and
\* every call that launched has exactly one kernel.
C14_ApplyLaunchesBoundVariant ==
  (op.status = "constructed" /\ op.degree \in {1, 2}) =>
    /\ op.tabulate_tensor = (IF op.degree = 1 THEN "Q1" ELSE "Q2")
    /\ KernelNamed(op.tabulate_tensor).space_dim = (IF op.degree = 1 THEN 8 ELSE 27)
    /\ \A s \in 1..Len(stream) :
         /\ stream[s].fn = op.tabulate_tensor
         /\ stream[s].N = op.num_cells
         /\ stream[s].constants = <<ROne>>
         /\ stream[s].x = SpaceOf(op.degree).x
         /\ stream[s].x_dofmap = SpaceOf(op.degree).x_dofmap
         /\ stream[s].dofmap = SpaceOf(op.degree).dofmap
    /\ \A n \in 1..Len(calls) :
         Cardinality({s \in 1..Len(stream) : stream[s].call = n})
           = IF calls[n].kernel \in {"queued", "running"} THEN 1 ELSE 0

\* two calls on a degree-2 operator have each launched tabulate_tensor_Q2
C14_TwoLaunchesOfQ2 ==
  /\ op.degree = 2
  /\ Len(stream) = 2
  /\ stream[1].fn = "Q2"
  /\ stream[2].fn = "Q2"

\* C15: the local tensor a unit scatters is what the quadrature loop builds on a
\* zero-filled A: the sum of the contributions of all quadrature points and
\* nothing else, in both kernel variants.
C15_LocalTensorStartsZero ==
  \A id \in DOMAIN unit :
    (op.degree \in {1, 2} /\ unit[id].pc \in {"scatter", "done"}) =>
      unit[id].A = TensorOf(<<Head(stream).fn, CoordinateDofs(id), unit[id].w,
                              Head(stream).constants[1], RZero>>)

\* C16: a unit moves gather -> quadrature -> scatter -> done and never back; it
\* leaves gather with all space_dim entries of w, leaves the quadrature loop
\* (27 points in Q1, 64 in Q2) with all of A, and each of its scatter steps is one
\* atomic add of A[i] to Aglobal[dofmap[id * space_dim + i]] for i = 0, 1, ...,
\* space_dim - 1 in turn; nothing else changes a vector.
C16_GatherQuadratureScatter ==
  [][LET k == Head(stream)
         K == KernelVariant(k)
         add(id) == [vec EXCEPT ![k.Aglobal][k.dofmap[id * K.space_dim + unit[id].i + 1] + 1]
                                  = RAdd(@, unit[id].A[unit[id].i + 1])]
     IN /\ \A id \in DOMAIN unit \cap DOMAIN unit' :
             /\ unit'[id].pc # unit[id].pc =>
                  <<unit[id].pc, unit'[id].pc>> \in
                     {<<"gather", "quad">>, <<"quad", "scatter">>, <<"scatter", "done">>}
             /\ unit'[id].pc = "quad" => Len(unit'[id].w) = K.space_dim
             /\ (unit[id].pc = "gather" /\ unit'[id] # unit[id]) =>
                  vec' = vec /\ Len(unit'[id].w) = Len(unit[id].w) + 1
             /\ (unit[id].pc = "quad" /\ unit'[id].pc = "scatter") =>
                  /\ Len(Triples(K.nq)) = (IF k.fn = "Q1" THEN 27 ELSE 64)
                  /\ Len(unit'[id].A) = K.space_dim
                  /\ unit'[id].i = 0
                  /\ vec' = vec
             /\ (unit[id].pc = "scatter" /\ unit'[id] # unit[id]) =>
                  /\ vec' = add(id)
                  /\ unit'[id].A = unit[id].A
                  /\ IF unit[id].i = K.space_dim - 1
                     THEN unit'[id].pc = "done"
                     ELSE unit'[id].pc = "scatter" /\ unit'[id].i = unit[id].i + 1
             /\ unit[id].pc = "done" => unit'[id] = unit[id]
        /\ vec' # vec =>
             \E id \in DOMAIN unit \cap DOMAIN unit' :
                unit[id].pc = "scatter" /\ unit'[id] # unit[id]]_vars

\* of two units one has issued all its atomic adds while the other is part-way
\* through its own
C16_OneUnitScatteredAll ==
  /\ DOMAIN unit = {0, 1}
  /\ unit[1].pc = "done"
  /\ unit[0].pc = "scatter"
  /\ unit[0].i = 3

\* C18: an operator constructed with a degree other than 1 or 2 exists, and its
\* calls launch no kernel, raise no error and leave every vector as it was.
C18_UnsupportedDegreeIsNoOp ==
  (op.status = "constructed" /\ op.degree \notin {1, 2}) =>
    /\ stream = <<>>
    /\ vec = vec0
    /\ hpc = "idle"
    /\ \A n \in 1..Len(calls) : calls[n].kernel = "none" /\ calls[n].result = "ok"

\* C19: under fair scheduling, every unit id < N of an executing kernel gets to the
\* end of its scatter loop, and every kernel that starts retires with no cell
\* left without its unit.
C19_EveryUnitCompletes ==
  /\ \A id \in 0..(MaxCells - 1) :
       (IF Executing THEN id < Head(stream).N ELSE FALSE)
         ~> (IF id \in DOMAIN unit THEN unit[id].pc = "done" ELSE FALSE)
  /\ \A n \in 1..MaxCells :
       (IF Len(calls) >= n THEN calls[n].kernel = "running" ELSE FALSE)
         ~> (IF Len(calls) >= n
             THEN calls[n].kernel = "done" /\ calls[n].missing = {} ELSE FALSE)

\* a kernel of two units that add to shared dofs has retired
C19_SharedDofKernelRetired ==
  /\ op.degree = 1
  /\ op.num_cells = 2
  /\ stream = <<>>
  /\ Len(calls) = 1
  /\ calls[1].kernel = "done"
  /\ \E d \in 5..8 : vec[calls[1].out][d] # base[calls[1].out][d]

\* C17: every subscript the loop nests evaluate is within the declared size of
\* its array (A and w: 8 or 27, coordinate_dofs: 24, weights: 27 or 64, the FE
\* tables), and the weight subscript is one-to-one and onto: no weight is used by
\* two quadrature points and, when the nest is through, each was used by one.
C17_IndicesInBounds ==
  walk.fn # "none" =>
    /\ \A a \in WalkAccesses : 0 <= a[2] /\ a[2] < a[3]
    /\ Extents(KernelNamed(walk.fn)).A = (IF walk.fn = "Q1" THEN 8 ELSE 27)
    /\ Extents(KernelNamed(walk.fn)).weights = (IF walk.fn = "Q1" THEN 27 ELSE 64)
    /\ \A n \in 1..Len(walk.used) : walk.used[n] <= 1
    /\ walk.done => \A n \in 1..Len(walk.used) : walk.used[n] = 1

\* the degree-2 nest is through all 64 quadrature points
C17_Q2NestComplete ==
  /\ walk.fn = "Q2"
  /\ walk.done
  /\ walk.q = 64
  /\ Len(walk.used) = 64

\* C13: apply(a * u1 + b * u2) = a * apply(u1) + b * apply(u2) at every dof, each
\* applied into a zero-filled output, for both kernel variants.
C13_ApplyIsLinear ==
  lin.done =>
    \A d \in 1..Len(lin.y12) :
      lin.y12[d] = RAdd(RMul(lin.a, lin.y1[d]), RMul(lin.b, lin.y2[d]))

====
